---- MODULE Spec2Model ----
(***************************************************************************)
(* A model of the trigger/execution engine of overseer's `task` crate:     *)
(*   - FileEventTask (src/task/src/file.rs): activate, the notify event    *)
(*     handler (PreEventHandler), the mpsc channel of capacity 1, the      *)
(*     background monitor (PostEventHandler::monitor) and the task run     *)
(*     (FileEventTask::run, join_all over the spawned command units);      *)
(*   - CronTask (src/task/src/cron.rs): activate and run (try_join_all);   *)
(*   - TaskCommand::run (src/task/src/lib.rs), the body of one unit.       *)
(* Time is in milliseconds and advances in steps of TickMs.  The handler    *)
(* reads the clock only to compare now - prev_time with DEBOUNCE, so the   *)
(* model keeps that difference, counted up to DEBOUNCE ("DEBOUNCE or       *)
(* more"), in place of the two Instants.                                   *)
(***************************************************************************)
EXTENDS Naturals, Integers, Sequences, FiniteSets, TLC

\* ------------------------------------------------------------------ bounds
\* Number of commands of the task under test.
NumCommands == 2
\* Cap on the number of events the handler forwards in one behaviour.
MaxForwarded == 2
\* Number of external owners (Arc clones) of the task at the start.
MaxOwners == 1
\* Cap on the number of firings of the cron schedule in one behaviour.
MaxFirings == 2
\* The most lines of one env_vars list.
MaxLines == 3
\* The most services of one docker-compose file.
MaxServices == 2

\* --------------------------------------------------------------- constants
\* PreEventHandler::DEBOUNCE, in milliseconds.
DEBOUNCE == 500
\* mpsc::channel::<Event>(1)
ChannelCapacity == 1

TickMs == DEBOUNCE \div 5
\* A duration, counted up to DEBOUNCE.
Later(d) == IF d + TickMs < DEBOUNCE THEN d + TickMs ELSE DEBOUNCE

\* ------------------------------------------------------------------ events
\* notify::EventKind
EventKinds == {"Any", "Access", "Create", "Modify", "Remove", "Other"}
\* FileEventTask.watch_paths of the task under test.
watch_paths == {"a"}
\* notify::Event: structural equality is equality of kind and paths.
Events == [kind : EventKinds, path : watch_paths]
\* What the watcher hands to handle_event: Ok(event) or Err(notify::Error).
Notifications ==
    {[ok |-> TRUE, event |-> e] : e \in Events}
        \cup {[ok |-> FALSE, event |-> [kind |-> "Any", path |-> "a"]]}

\* ---------------------------------------------------------------- commands
Commands == 1 .. NumCommands
\* TaskCommand.name of the i-th command, FileEventTask.name / CronTask.name.
CommandName(i) == <<"command", i>>
TaskName == <<"task">>

\* Exit codes a process can end with (0 is success).
ExitCodes == {0, 1}
\* What the operating system does with the process of one command: the spawn
\* fails, the wait fails, the process exits with a code, or it ends without a
\* code (terminated by a signal: code is None).
ProcOutcomes ==
    {[spawn |-> "Err", wait |-> "Err", code |-> <<>>],
     [spawn |-> "Ok", wait |-> "Err", code |-> <<>>],
     [spawn |-> "Ok", wait |-> "Ok", code |-> <<>>]}
        \cup {[spawn |-> "Ok", wait |-> "Ok", code |-> <<c>>] : c \in ExitCodes}

\* The state of one execution unit (a tokio task) as its JoinHandle sees it.
Unit(tag, name, type, code) ==
    [tag |-> tag, name |-> name, type |-> type, code |-> code]
NotSpawned == Unit("NotSpawned", <<>>, "", 0)
Running == Unit("Running", <<>>, "", 0)
\* Ok(Ok(()))
UnitOk == Unit("Ok", <<>>, "", 0)
\* Ok(Err(CommandRunError { name, type }))
UnitErr(name, type, code) == Unit("Err", name, type, code)
\* Err(JoinError): the unit panicked
UnitPanicked == Unit("JoinErr", <<>>, "Panic", 0)
\* The JoinHandle was dropped while the unit was running: it runs on, and
\* nothing reads its result.
Detached == Unit("Detached", <<>>, "", 0)

\* std::process::ExitStatus::success
success(code) == code = <<0>>

\* TaskCommand::run: the value the unit of command i ends with.
TaskCommandRun(i, p) ==
    IF p.spawn = "Err" THEN UnitErr(CommandName(i), "Io", 0)
    ELSE IF p.wait = "Err" THEN UnitErr(CommandName(i), "Io", 0)
    ELSE IF success(p.code) THEN UnitOk
    ELSE IF p.code = <<>> THEN UnitPanicked  \* .expect("No exit code")
    ELSE UnitErr(CommandName(i), "ExitStatus", p.code[1])

Finished(u) == u.tag \in {"Ok", "Err", "JoinErr"}

\* enum Host { Local, Remote(addr) } and the hosts a task is configured with.
Local == [tag |-> "Local", addr |-> ""]
Remote(addr) == [tag |-> "Remote", addr |-> addr]
Addresses == {"10.0.0.2"}
Hosts == {Local} \cup {Remote(a) : a \in Addresses}

\* Where the unit of a command executes it: not at all yet (""), on the
\* machine the program runs on, or on the machine at an address.
Nowhere == ""
LocalMachine == "local machine"

\* What the remote machine does with a command sent to it: no session is
\* established, or the shell line ends with an exit code.
RemoteOutcomes ==
    {[session |-> "Err", code |-> <<>>]}
        \cup {[session |-> "Ok", code |-> <<c>>] : c \in ExitCodes}

\* cmd.run_remote(addr): the value the unit of command i ends with.
TaskCommandRunRemote(i, r) ==
    IF r.session = "Err" THEN UnitErr(CommandName(i), "Ssh", 0)
    ELSE IF success(r.code) THEN UnitOk
    ELSE UnitErr(CommandName(i), "ExitStatus", r.code[1])

\* --------------------------------------------------------------- variables
VARIABLES
    elapsed,     \* Instant::now() - inner.prev_time in ms, up to DEBOUNCE
    sinceFwd,    \* ghost: Instant::now() - the time the last forwarded event
                 \* was remembered, in ms, up to DEBOUNCE
    activation,  \* "none" | "ok" | "err": the outcome of FileEventTask::activate
    created,     \* <<>> before activate, then <<b>>: RecommendedWatcher::new
                 \* returned Ok (b) or Err (~b)
    watched,     \* the paths watcher.watch accepted
    extOwners,   \* Arc<FileEventTask> clones held outside the monitor
    host,        \* the host field of the task (FileEventTask.host,
                 \* CronTask.host)
    inner,       \* PreEventHandler.inner: <<>> (None) or <<[prev_event]>>
    hpc,         \* handler: "idle" | "sending" (inside blocking_send)
    pending,     \* the event blocking_send is pushing: <<>> or <<event>>
    txOpen,      \* the Sender (owned by the watcher's handler) is alive
    chan,        \* the buffer of mpsc::channel(1)
    mpc,         \* monitor: "none" | "recv" | "run" | "done"
    unit,        \* the units of the file task's current (else last) run
    result,      \* what the last completed FileEventTask::run returned
    ranOn,       \* per command, where the unit of that run executes it
    log,         \* the last line the handler logged
    lastFwd,     \* ghost: <<>> or <<event>>, the last forwarded event
    nForwarded,  \* ghost: events pushed onto the channel
    nReceived,   \* ghost: events the monitor received
    nRuns,       \* ghost: task runs the monitor started
    nFailed,     \* ghost: task runs that returned Err
    cron_id,     \* CronTask.id (AtomicU64)
    activated,   \* ghost: <<>> or <<[id, ret]>>, the argument of the last
                 \* call of CronTask::activate and what it returned:
                 \* <<id>> for Ok(id), <<>> for Err
    registered,  \* the scheduler holds a registration of the cron task
    cpc,         \* the firing of the registration: "idle" | "run"
    cunit,       \* the units of the cron task's current (else last) run
    detached,    \* per command, the units still running that no run awaits
    cresult,     \* what the last completed CronTask::run returned
    cranOn,      \* per command, where the unit of that run executes it
    cproc,       \* ghost: per command, <<>> or <<p>>, what the operating
                 \* system did with the process of the unit that ended
    nFired,      \* ghost: firings of the schedule
    depChecks,   \* the calls of check_dependencies made (each aborts with
                 \* unimplemented!)
    remote,      \* <<>> or <<[cmd, line]>>: the command run remotely last
                 \* and the shell line built for it
    svc,         \* <<>> or <<[service, connected, replies, out, asked]>>: the
                 \* service whose status was queried, whether it held a
                 \* connection, what the Docker API answers for each of its
                 \* containers, the result, and the containers inspected
    de           \* <<>> or <<[field, input, output]>>: the field of a task
                 \* definition deserialized last ("host", "run" or
                 \* "env_vars"), its value and the result

timeVars == <<elapsed, sinceFwd>>
handlerVars == <<inner, hpc, pending, log, lastFwd, nForwarded>>
ownerVars == <<activation, created, watched, extOwners, host>>
chanVars == <<txOpen, chan>>
monitorVars == <<mpc, nReceived, nRuns, nFailed>>
runVars == <<unit, result, ranOn>>
fileVars == <<handlerVars, ownerVars, chanVars, monitorVars, runVars>>

cronVars ==
    <<cron_id, activated, registered, cpc, cunit, detached, cresult,
      cranOn, cproc, nFired>>

loadVars == <<de, remote>>

stubVars == <<depChecks>>

serviceVars == <<svc>>

vars == <<timeVars, fileVars, cronVars, stubVars, loadVars, serviceVars>>

\* ----------------------------------------------------------------- handler
\* A faulty variant of relevant: access events count as relevant too.
relevant_WithAccess(event) ==
    event.kind \in {"Access", "Create", "Modify", "Remove"}

\* PreEventHandler::relevant
relevant(event) == event.kind \in {"Create", "Modify", "Remove"}

\* PreEventHandler::debouncing
debouncing(event) ==
    IF inner # <<>>
    THEN inner[1].prev_event = event /\ elapsed < DEBOUNCE
    ELSE FALSE

\* PreEventHandler::remember with PreEventHandlerInner::from: the new inner
\* holds the event, and prev_time = Instant::now() makes elapsed 0.
remember(event) ==
    /\ inner' = <<[prev_event |-> event]>>
    /\ elapsed' = 0

\* A faulty variant of ActivationResult: a path the watcher refuses makes
\* activation fail.
ActivationResult_FailsOnPath(ok, w) ==
    IF ok /\ w = watch_paths THEN "ok" ELSE "err"

\* What FileEventTask::activate returns when RecommendedWatcher::new
\* succeeded (ok) or not, and watcher.watch accepted the paths w: only the ?
\* on the creation returns an error, a refused path is logged.
ActivationResult(ok, w) == IF ok THEN "ok" ELSE "err"

\* FileEventTask::activate returns Err: nothing is spawned.  (With the
\* watcher not created, no path is offered to it.)
ActivateErr ==
    /\ activation = "none"
    /\ extOwners > 0
    /\ \E ok \in BOOLEAN, w \in SUBSET watch_paths :
           /\ ~ok => w = {}
           /\ ActivationResult(ok, w) = "err"
           /\ created' = <<ok>>
           /\ watched' = w
    /\ activation' = "err"
    /\ UNCHANGED <<timeVars, extOwners, host, handlerVars, chanVars,
                   monitorVars, runVars>>
    /\ UNCHANGED <<cronVars, loadVars, stubVars, serviceVars>>

\* A faulty variant of ActivateOk: activation is gated on the dependencies,
\* and the call of check_dependencies aborts it.
ActivateOk_ChecksDependencies ==
    /\ activation = "none"
    /\ extOwners > 0
    /\ depChecks = 0
    /\ depChecks' = depChecks + 1
    /\ UNCHANGED <<timeVars, fileVars, cronVars, loadVars, serviceVars>>

\* FileEventTask::activate: the channel and the watcher are created, every
\* path is offered to watcher.watch (a refusal is only logged), and the
\* monitor is spawned with a clone of the Arc.
ActivateOk ==
    /\ activation = "none"
    /\ extOwners > 0
    /\ \E w \in SUBSET watch_paths :
           /\ ActivationResult(TRUE, w) = "ok"
           /\ watched' = w
    /\ created' = <<TRUE>>
    /\ activation' = "ok"
    /\ txOpen' = TRUE
    /\ chan' = <<>>
    /\ mpc' = "recv"
    /\ UNCHANGED <<timeVars, extOwners, host, handlerVars, nReceived, nRuns,
                   nFailed, runVars>>
    /\ UNCHANGED <<cronVars, loadVars, stubVars, serviceVars>>

\* An external owner drops its Arc<FileEventTask>.
ReleaseOwner ==
    /\ extOwners > 0
    /\ extOwners' = extOwners - 1
    /\ UNCHANGED <<timeVars, activation, created, watched, host,
                   handlerVars, chanVars, monitorVars, runVars>>
    /\ UNCHANGED <<cronVars, loadVars, stubVars, serviceVars>>

\* notify::EventHandler::handle_event, up to its return or to the point
\* where it enters blocking_send.
handle_event(n) ==
    /\ activation = "ok"
    /\ txOpen
    /\ hpc = "idle"
    /\ n.ok => n.event.path \in watched
    /\ IF ~n.ok
       THEN /\ log' = "Watcher event error"
            /\ UNCHANGED <<inner, elapsed, hpc, pending>>
       ELSE IF ~relevant(n.event)
       THEN /\ log' = "Ignored event"
            /\ UNCHANGED <<inner, elapsed, hpc, pending>>
       ELSE IF debouncing(n.event)
       THEN /\ log' = "Debounced event"
            /\ remember(n.event)
            /\ UNCHANGED <<hpc, pending>>
       ELSE /\ nForwarded < MaxForwarded
            /\ hpc' = "sending"
            /\ pending' = <<n.event>>
            /\ UNCHANGED <<inner, elapsed, log>>
    /\ UNCHANGED <<sinceFwd, lastFwd, nForwarded, ownerVars, chanVars,
                   monitorVars, runVars>>
    /\ UNCHANGED <<cronVars, loadVars, stubVars, serviceVars>>

\* A faulty variant of SendComplete: the push does not wait for room in the channel.
SendComplete_NoBackpressure ==
    /\ hpc = "sending"
    /\ chan' = Append(chan, pending[1])
    /\ log' = "Event forwarded"
    /\ remember(pending[1])
    /\ lastFwd' = <<pending[1]>>
    /\ sinceFwd' = 0
    /\ nForwarded' = nForwarded + 1
    /\ hpc' = "idle"
    /\ pending' = <<>>
    /\ UNCHANGED <<ownerVars, txOpen, monitorVars, runVars>>
    /\ UNCHANGED <<cronVars, loadVars, stubVars, serviceVars>>

\* blocking_send returns Ok(()) once the channel has room; handle_event then
\* logs, remembers the event and returns.  (blocking_send returns Err only
\* when the Receiver is gone, and the monitor that owns the Receiver also
\* owns the watcher whose handler is sending: that branch is not reachable.)
SendComplete ==
    /\ hpc = "sending"
    /\ Len(chan) < ChannelCapacity
    /\ chan' = Append(chan, pending[1])
    /\ log' = "Event forwarded"
    /\ remember(pending[1])
    /\ lastFwd' = <<pending[1]>>
    /\ sinceFwd' = 0
    /\ nForwarded' = nForwarded + 1
    /\ hpc' = "idle"
    /\ pending' = <<>>
    /\ UNCHANGED <<ownerVars, txOpen, monitorVars, runVars>>
    /\ UNCHANGED <<cronVars, loadVars, stubVars, serviceVars>>

\* The watch backend ends and drops the event handler, and with it the
\* Sender: the channel is closed once its buffer is drained.
WatcherDestroyed ==
    /\ activation = "ok"
    /\ txOpen
    /\ hpc = "idle"
    /\ txOpen' = FALSE
    /\ UNCHANGED <<timeVars, ownerVars, handlerVars, chan, monitorVars,
                   runVars>>
    /\ UNCHANGED <<cronVars, loadVars, stubVars, serviceVars>>

\* ------------------------------------------------------------ the task run
IdleUnits == [i \in Commands |-> NotSpawned]
\* self.commands.iter().cloned().map(|cmd| tokio::spawn(..)): one unit per
\* command, all started before the first await.
SpawnAll == [i \in Commands |-> Running]

\* The match on self.host in FileEventTask::run: where the unit of a command
\* executes it.
Dispatch(h) == IF h.tag = "Local" THEN LocalMachine ELSE h.addr

\* CronTask::run spawns cmd.run() for every command and does not read
\* self.host.
CronDispatch(h) == LocalMachine

\* The filter_map of FileEventTask::run over the join_all results, which are
\* in command order: the errors of units 1..k.
RECURSIVE ErrorsUpTo(_, _)
ErrorsUpTo(u, k) ==
    IF k = 0 THEN <<>>
    ELSE LET rest == ErrorsUpTo(u, k - 1)
         IN  CASE u[k].tag = "Ok" -> rest
               [] u[k].tag = "Err" ->
                    Append(rest, [name |-> u[k].name, type |-> u[k].type,
                                  code |-> u[k].code])
               [] OTHER ->
                    Append(rest, [name |-> TaskName, type |-> "Async",
                                  code |-> 0])

\* What FileEventTask::run returns for the finished units u.
FileRunResult(u) ==
    LET errors == ErrorsUpTo(u, NumCommands)
    IN  IF errors = <<>> THEN [tag |-> "Ok", errors |-> <<>>]
        ELSE [tag |-> "Err", errors |-> errors]

\* A unit of the run in flight ends: the command's local run returns or
\* panics.  (FileEventTask::run spawns cmd.run_local(); the local run among
\* the sources is TaskCommand::run.)
UnitFinish(i, p) ==
    /\ unit[i] = Running
    /\ ranOn[i] = LocalMachine
    /\ unit' = [unit EXCEPT ![i] = TaskCommandRun(i, p)]
    /\ UNCHANGED <<timeVars, handlerVars, ownerVars, chanVars, monitorVars,
                   result, ranOn>>
    /\ UNCHANGED <<cronVars, loadVars, stubVars, serviceVars>>

\* A unit of the run in flight ends: the command's remote run returns.
RemoteUnitFinish(i, r) ==
    /\ unit[i] = Running
    /\ ranOn[i] \in Addresses
    /\ unit' = [unit EXCEPT ![i] = TaskCommandRunRemote(i, r)]
    /\ UNCHANGED <<timeVars, handlerVars, ownerVars, chanVars, monitorVars,
                   result, ranOn>>
    /\ UNCHANGED <<cronVars, loadVars, stubVars, serviceVars>>

\* ----------------------------------------------------------------- monitor
\* A faulty variant of AfterRun: the monitor returns when the run failed.
AfterRun_StopOnError(r) == IF r.tag = "Err" THEN "done" ELSE "recv"

\* A faulty variant of AfterRun: the monitor returns after its first run.
AfterRun_Once(r) == "done"

\* What the monitor does after a run that returned r: both arms of the inner
\* match only log, and the loop goes on.
AfterRun(r) == "recv"

\* PostEventHandler::monitor, rx.recv() yields Some(_): the task body is
\* called at once (no suspension point lies between), which spawns the units.
MonitorRecvSome ==
    /\ mpc = "recv"
    /\ chan # <<>>
    /\ chan' = Tail(chan)
    /\ nReceived' = nReceived + 1
    /\ nRuns' = nRuns + 1
    /\ unit' = SpawnAll
    /\ ranOn' = [i \in Commands |-> Dispatch(host)]
    /\ result' = <<>>
    /\ mpc' = "run"
    /\ UNCHANGED <<timeVars, handlerVars, ownerVars, txOpen, nFailed>>
    /\ UNCHANGED <<cronVars, loadVars, stubVars, serviceVars>>

\* A faulty variant of MonitorRecvNone: the task is run once more when the channel
\* is found closed.
MonitorRecvNone_RunsOnClose ==
    /\ mpc = "recv"
    /\ chan = <<>>
    /\ ~txOpen
    /\ nRuns' = nRuns + 1
    /\ unit' = SpawnAll
    /\ ranOn' = [i \in Commands |-> Dispatch(host)]
    /\ result' = <<>>
    /\ mpc' = "run"
    /\ UNCHANGED <<timeVars, handlerVars, ownerVars, chanVars, nReceived,
                   nFailed>>
    /\ UNCHANGED <<cronVars, loadVars, stubVars, serviceVars>>

\* A faulty variant of MonitorRecvNone: an empty buffer is taken for a closed channel.
MonitorRecvNone_OnEmpty ==
    /\ mpc = "recv"
    /\ chan = <<>>
    /\ mpc' = "done"
    /\ UNCHANGED <<timeVars, handlerVars, ownerVars, chanVars, nReceived,
                   nRuns, nFailed, runVars>>
    /\ UNCHANGED <<cronVars, loadVars, stubVars, serviceVars>>

\* PostEventHandler::monitor, rx.recv() yields None: every Sender is gone
\* and the buffer is empty; the monitor returns.
MonitorRecvNone ==
    /\ mpc = "recv"
    /\ chan = <<>>
    /\ ~txOpen
    /\ mpc' = "done"
    /\ UNCHANGED <<timeVars, handlerVars, ownerVars, chanVars, nReceived,
                   nRuns, nFailed, runVars>>
    /\ UNCHANGED <<cronVars, loadVars, stubVars, serviceVars>>

\* A faulty variant of MonitorRunDone: the monitor does not await the run to
\* its end and goes on while units are running.
MonitorRunDone_NoAwait ==
    /\ mpc = "run"
    /\ LET r == FileRunResult(unit)
       IN  /\ result' = <<r>>
           /\ nFailed' = IF r.tag = "Err" THEN nFailed + 1 ELSE nFailed
           /\ mpc' = AfterRun(r)
    /\ UNCHANGED <<timeVars, handlerVars, ownerVars, chanVars, nReceived,
                   nRuns, unit, ranOn>>
    /\ UNCHANGED <<cronVars, loadVars, stubVars, serviceVars>>

\* join_all completes when every unit has finished; run returns and the
\* monitor matches on its result.
MonitorRunDone ==
    /\ mpc = "run"
    /\ \A i \in Commands : Finished(unit[i])
    /\ LET r == FileRunResult(unit)
       IN  /\ result' = <<r>>
           /\ nFailed' = IF r.tag = "Err" THEN nFailed + 1 ELSE nFailed
           /\ mpc' = AfterRun(r)
    /\ UNCHANGED <<timeVars, handlerVars, ownerVars, chanVars, nReceived,
                   nRuns, unit, ranOn>>
    /\ UNCHANGED <<cronVars, loadVars, stubVars, serviceVars>>

\* The clock advances.  No duration is kept before the first event is
\* remembered.
Tick ==
    /\ inner # <<>>
    /\ elapsed' = Later(elapsed)
    /\ sinceFwd' = Later(sinceFwd)
    /\ UNCHANGED fileVars
    /\ UNCHANGED <<cronVars, loadVars, stubVars, serviceVars>>

Init ==
    /\ elapsed = 0
    /\ sinceFwd = 0
    /\ activation = "none"
    /\ created = <<>>
    /\ watched = {}
    /\ extOwners \in 1 .. MaxOwners
    /\ host \in Hosts
    /\ inner = <<>>
    /\ hpc = "idle"
    /\ pending = <<>>
    /\ txOpen = FALSE
    /\ chan = <<>>
    /\ mpc = "none"
    /\ unit = IdleUnits
    /\ result = <<>>
    /\ ranOn = [i \in Commands |-> Nowhere]
    /\ log = ""
    /\ lastFwd = <<>>
    /\ nForwarded = 0
    /\ nReceived = 0
    /\ nRuns = 0
    /\ nFailed = 0
    /\ cron_id = 0
    /\ activated = <<>>
    /\ registered = FALSE
    /\ cpc = "idle"
    /\ cunit = IdleUnits
    /\ detached = [i \in Commands |-> 0]
    /\ cresult = <<>>
    /\ cranOn = [i \in Commands |-> Nowhere]
    /\ cproc = [i \in Commands |-> <<>>]
    /\ nFired = 0
    /\ depChecks = 0
    /\ svc = <<>>
    /\ de = <<>>
    /\ remote = <<>>

Next ==
    \/ ActivateErr
    \/ ActivateOk
    \/ ReleaseOwner
    \/ \E n \in Notifications : handle_event(n)
    \/ SendComplete
    \/ WatcherDestroyed
    \/ MonitorRecvSome
    \/ MonitorRecvNone
    \/ \E i \in Commands, p \in ProcOutcomes : UnitFinish(i, p)
    \/ \E i \in Commands, r \in RemoteOutcomes : RemoteUnitFinish(i, r)
    \/ MonitorRunDone
    \/ Tick

\* -------------------------------------------------------------------- cron
\* Task ids a caller passes to CronTask::activate.
CronIds == {1, 2}

\* A faulty variant of CronActivateOk: activation also runs the task once.
CronActivateOk_RunsNow(id) ==
    /\ ~registered
    /\ cron_id' = id
    /\ activated' = <<[id |-> id, ret |-> <<id>>]>>
    /\ registered' = TRUE
    /\ cunit' = SpawnAll
    /\ cranOn' = [i \in Commands |-> CronDispatch(host)]
    /\ cpc' = "run"
    /\ UNCHANGED <<detached, cresult, cproc, nFired>>
    /\ UNCHANGED <<timeVars, fileVars, loadVars, stubVars, serviceVars>>

\* CronTask::activate(delay_timer, id), registration succeeds: the id is
\* stored, the closure is registered with at most one parallel run, and
\* Ok(id) is returned.  Nothing is run.
CronActivateOk(id) ==
    /\ ~registered
    /\ cron_id' = id
    /\ activated' = <<[id |-> id, ret |-> <<id>>]>>
    /\ registered' = TRUE
    /\ UNCHANGED <<cpc, cunit, detached, cresult, cranOn, cproc,
                   nFired>>
    /\ UNCHANGED <<timeVars, fileVars, loadVars, stubVars, serviceVars>>

\* A faulty variant of CronActivateErr: the id is stored only once the
\* registration has succeeded, so a failed call leaves the old id.
CronActivateErr_StoresAfterRegistration(id) ==
    /\ ~registered
    /\ activated' = <<[id |-> id, ret |-> <<>>]>>
    /\ UNCHANGED <<cron_id, registered, cpc, cunit, detached, cresult,
                   cranOn, cproc, nFired>>
    /\ UNCHANGED <<timeVars, fileVars, loadVars, stubVars, serviceVars>>

\* CronTask::activate(delay_timer, id), the schedule string does not parse
\* or add_task fails: the id is already stored, the error is returned.
CronActivateErr(id) ==
    /\ ~registered
    /\ cron_id' = id
    /\ activated' = <<[id |-> id, ret |-> <<>>]>>
    /\ UNCHANGED <<registered, cpc, cunit, detached, cresult,
                   cranOn, cproc, nFired>>
    /\ UNCHANGED <<timeVars, fileVars, loadVars, stubVars, serviceVars>>

\* The schedule fires and the scheduler calls the closure, which it does
\* only while no earlier call of it is still pending
\* (set_maximum_parallel_runnable_num(1)): CronTask::run spawns one unit
\* per command.
CronFire ==
    /\ registered
    /\ cpc = "idle"
    /\ nFired < MaxFirings
    /\ nFired' = nFired + 1
    /\ cunit' = SpawnAll
    /\ cranOn' = [i \in Commands |-> CronDispatch(host)]
    /\ cproc' = [i \in Commands |-> <<>>]
    /\ cresult' = <<>>
    /\ cpc' = "run"
    /\ UNCHANGED <<cron_id, activated, registered, detached>>
    /\ UNCHANGED <<timeVars, fileVars, loadVars, stubVars, serviceVars>>

\* A unit CronTask::run awaits ends: TaskCommand::run returns or panics.
CronUnitFinish(i, p) ==
    /\ cunit[i] = Running
    /\ cunit' = [cunit EXCEPT ![i] = TaskCommandRun(i, p)]
    /\ cproc' = [cproc EXCEPT ![i] = <<p>>]
    /\ UNCHANGED <<cron_id, activated, registered, cpc, detached, cresult,
                   cranOn, nFired>>
    /\ UNCHANGED <<timeVars, fileVars, loadVars, stubVars, serviceVars>>

\* future::try_join_all over the JoinHandles is ready as soon as one handle
\* yields Err(JoinError), and otherwise when all have yielded.
TryJoinAllReady(u) ==
    \/ \E i \in Commands : u[i].tag = "JoinErr"
    \/ \A i \in Commands : Finished(u[i])

\* What CronTask::run returns for the units u once try_join_all is ready:
\* Err(JoinError) if a handle yielded one, else Ok(()) whatever the
\* commands returned.
CronRunResult(u) ==
    IF \E i \in Commands : u[i].tag = "JoinErr"
    THEN [tag |-> "Err", errors |-> <<[name |-> TaskName, type |-> "Async",
                                       code |-> 0]>>]
    ELSE [tag |-> "Ok", errors |-> <<>>]

\* CronTask::run returns: the JoinHandles are dropped, which detaches the
\* units that are still running.
CronRunReturn ==
    /\ cpc = "run"
    /\ TryJoinAllReady(cunit)
    /\ cresult' = <<CronRunResult(cunit)>>
    /\ detached' = [i \in Commands |->
                        IF cunit[i] = Running THEN detached[i] + 1
                        ELSE detached[i]]
    /\ cunit' = [i \in Commands |->
                     IF cunit[i] = Running THEN Detached ELSE cunit[i]]
    /\ cpc' = "idle"
    /\ UNCHANGED <<cron_id, activated, registered, cranOn, cproc, nFired>>
    /\ UNCHANGED <<timeVars, fileVars, loadVars, stubVars, serviceVars>>

\* A detached unit ends; nobody reads its result.
DetachedFinish(i) ==
    /\ detached[i] > 0
    /\ detached' = [detached EXCEPT ![i] = detached[i] - 1]
    /\ UNCHANGED <<cron_id, activated, registered, cpc, cunit, cresult,
                   cranOn, cproc, nFired>>
    /\ UNCHANGED <<timeVars, fileVars, loadVars, stubVars, serviceVars>>

CronNext ==
    \/ \E id \in CronIds : CronActivateOk(id)
    \/ \E id \in CronIds : CronActivateErr(id)
    \/ CronFire
    \/ \E i \in Commands, p \in ProcOutcomes : CronUnitFinish(i, p)
    \/ CronRunReturn
    \/ \E i \in Commands : DetachedFinish(i)

\* ------------------------------------------------- task definition loading
\* A string is the sequence of its characters.
UpperLetters ==
    <<"A", "B", "C", "D", "E", "F", "G", "H", "I", "J", "K", "L", "M",
      "N", "O", "P", "Q", "R", "S", "T", "U", "V", "W", "X", "Y", "Z">>
LowerLetters ==
    <<"a", "b", "c", "d", "e", "f", "g", "h", "i", "j", "k", "l", "m",
      "n", "o", "p", "q", "r", "s", "t", "u", "v", "w", "x", "y", "z">>
\* char::is_ascii_lowercase
is_ascii_lowercase(c) == \E k \in 1 .. Len(LowerLetters) : LowerLetters[k] = c
\* char::to_ascii_lowercase
LowerChar(c) ==
    IF \E k \in 1 .. Len(UpperLetters) : UpperLetters[k] = c
    THEN LowerLetters[CHOOSE k \in 1 .. Len(UpperLetters) : UpperLetters[k] = c]
    ELSE c
\* str::to_ascii_lowercase
RECURSIVE to_ascii_lowercase(_)
to_ascii_lowercase(s) ==
    IF s = <<>> THEN <<>>
    ELSE <<LowerChar(Head(s))>> \o to_ascii_lowercase(Tail(s))

\* The position of the first c in s, 0 if there is none.
Find(s, c) ==
    IF \E k \in 1 .. Len(s) : s[k] = c
    THEN CHOOSE k \in 1 .. Len(s) : s[k] = c /\ \A j \in 1 .. k - 1 : s[j] # c
    ELSE 0
\* str::split_once(c): <<>> (None) or <<[before, after]>> around the first c.
split_once(s, c) ==
    LET k == Find(s, c)
    IN  IF k = 0 THEN <<>>
        ELSE <<[before |-> SubSeq(s, 1, k - 1),
                after |-> SubSeq(s, k + 1, Len(s))]>>
\* str::split(c), collected: the pieces between every c.
RECURSIVE split(_, _)
split(s, c) ==
    LET k == Find(s, c)
    IN  IF k = 0 THEN <<s>>
        ELSE <<SubSeq(s, 1, k - 1)>> \o split(SubSeq(s, k + 1, Len(s)), c)

Whitespace == {" ", "\t"}
\* str::trim_end, str::trim_start
RECURSIVE trim_end(_)
trim_end(s) ==
    IF s # <<>> /\ s[Len(s)] \in Whitespace
    THEN trim_end(SubSeq(s, 1, Len(s) - 1))
    ELSE s
RECURSIVE trim_start(_)
trim_start(s) ==
    IF s # <<>> /\ Head(s) \in Whitespace THEN trim_start(Tail(s)) ELSE s

\* format!("{input:?}"): the Debug form of a string, in double quotes with
\* every double quote and backslash escaped.
RECURSIVE EscapeDebug(_)
EscapeDebug(s) ==
    IF s = <<>> THEN <<>>
    ELSE (IF Head(s) \in {"\"", "\\"} THEN <<"\\", Head(s)>> ELSE <<Head(s)>>)
             \o EscapeDebug(Tail(s))
DebugFmt(s) == <<"\"">> \o EscapeDebug(s) \o <<"\"">>

\* The strings the match of Host::deserialize maps to Local.
LocalNames ==
    {<<"l", "o", "c", "a", "l">>,
     <<"l", "o", "c", "a", "l", "h", "o", "s", "t">>,
     <<"1", "2", "7", ".", "0", ".", "0", ".", "1">>,
     <<":", ":", "1">>}
\* IpAddr::from_str on the texts used here: <<>> (Err) or <<address>>.
IpTexts ==
    {[text |-> <<"1", "2", "7", ".", "0", ".", "0", ".", "1">>,
      addr |-> "127.0.0.1"],
     [text |-> <<"1", "0", ".", "0", ".", "0", ".", "2">>,
      addr |-> "10.0.0.2"],
     [text |-> <<":", ":", "1">>, addr |-> "::1"],
     [text |-> <<":", ":", "a">>, addr |-> "::a"]}
IpAddrFromStr(s) ==
    IF \E e \in IpTexts : e.text = s
    THEN <<(CHOOSE e \in IpTexts : e.text = s).addr>>
    ELSE <<>>

\* A deserialization result: Ok(value) or Err.
DeOk(v) == [tag |-> "Ok", value |-> <<v>>]
DeErr == [tag |-> "Err", value |-> <<>>]

\* A faulty variant of HostDeserialize: the string is matched as written,
\* not lower-cased.
HostDeserialize_CaseSensitive(s) ==
    IF s \in LocalNames THEN DeOk(Local)
    ELSE LET addr == IpAddrFromStr(s)
         IN  IF addr = <<>> THEN DeErr ELSE DeOk(Remote(addr[1]))

\* <Host as Deserialize>::deserialize on the string s.
HostDeserialize(s) ==
    LET l == to_ascii_lowercase(s)
    IN  IF l \in LocalNames THEN DeOk(Local)
        ELSE LET addr == IpAddrFromStr(l)
             IN  IF addr = <<>> THEN DeErr ELSE DeOk(Remote(addr[1]))
\* The host field of a task definition, #[serde(default)]: field is <<>>
\* when the definition omits host, else <<s>>.
HostField(field) ==
    IF field = <<>> THEN DeOk(Local) ELSE HostDeserialize(field[1])

\* The values of host in the task definitions loaded.
HostStrings ==
    {<<"l", "o", "c", "a", "l">>,
     <<"l", "o", "c", "a", "l", "h", "o", "s", "t">>,
     <<"1", "2", "7", ".", "0", ".", "0", ".", "1">>,
     <<":", ":", "1">>,
     <<"L", "o", "c", "a", "l", "H", "o", "s", "t">>,
     <<"1", "0", ".", "0", ".", "0", ".", "2">>,
     <<":", ":", "A">>,
     <<"e", "x", "a", "m", "p", "l", "e", ".", "c", "o", "m">>,
     <<>>}
\* The host fields of those definitions: omitted, or a string.
HostFields == {<<>>} \cup {<<s>> : s \in HostStrings}

\* The paths of the local filesystem that exist, and those of them that are
\* executable.
ExistingPaths ==
    {<<"/", "b", "i", "n", "/", "e", "c", "h", "o">>,
     <<"/", "o", "p", "t", "/", "m", "y", " ", "t", "o", "o", "l">>,
     <<"/", "e", "t", "c", "/", "h", "o", "s", "t", "s">>}
ExecutablePaths ==
    {<<"/", "b", "i", "n", "/", "e", "c", "h", "o">>,
     <<"/", "o", "p", "t", "/", "m", "y", " ", "t", "o", "o", "l">>}

\* <MyCommand as Deserialize>::deserialize on the string input.
MyCommandDeserialize(input) ==
    IF input \in ExistingPaths /\ input \in ExecutablePaths
    THEN LET parts == split_once(input, " ")
         IN  IF parts # <<>>
             THEN [program |-> parts[1].before,
                   args |-> split(parts[1].after, " ")]
             ELSE [program |-> input, args |-> <<>>]
    ELSE [program |-> <<"s", "h">>, args |-> <<DebugFmt(input)>>]

\* The values of run in the task definitions loaded.
RunStrings ==
    {<<"/", "b", "i", "n", "/", "e", "c", "h", "o">>,
     <<"/", "b", "i", "n", "/", "e", "c", "h", "o", " ", "h", "e", "l",
      "l", "o">>,
     <<"/", "b", "i", "n", "/", "e", "c", "h", "o", " ", "a", " ", " ",
      "b">>,
     <<"/", "o", "p", "t", "/", "m", "y", " ", "t", "o", "o", "l">>,
     <<"/", "e", "t", "c", "/", "h", "o", "s", "t", "s">>,
     <<"e", "c", "h", "o", " ", "\"", "h", "i", "\"">>,
     <<"l", "s", " ", "-", "l">>,
     <<"m", "a", "k", "e">>}

\* de_env_vars: the result after the first k lines of input, the for loop
\* returning at the first line that has no '='.  warned holds the keys the
\* loop logged a warning for.
RECURSIVE EnvVarsUpTo(_, _)
EnvVarsUpTo(input, k) ==
    IF k = 0 THEN [tag |-> "Ok", value |-> <<<<>>>>, warned |-> <<>>]
    ELSE LET prev == EnvVarsUpTo(input, k - 1)
             parts == split_once(input[k], "=")
         IN  IF prev.tag = "Err" THEN prev
             ELSE IF parts = <<>>
             THEN [tag |-> "Err", value |-> <<>>, warned |-> prev.warned]
             ELSE LET key == parts[1].before
                      val == parts[1].after
                  IN  [tag |-> "Ok",
                       value |-> <<Append(prev.value[1],
                                          <<trim_end(key), trim_start(val)>>)>>,
                       warned |->
                           IF \E j \in 1 .. Len(key) : is_ascii_lowercase(key[j])
                           THEN Append(prev.warned, key)
                           ELSE prev.warned]
\* A faulty variant of de_env_vars: a key with a lowercase letter is an error.
de_env_vars_RejectsLowercase(input) ==
    LET r == EnvVarsUpTo(input, Len(input))
    IN  IF r.warned # <<>>
        THEN [tag |-> "Err", value |-> <<>>, warned |-> r.warned]
        ELSE r

de_env_vars(input) == EnvVarsUpTo(input, Len(input))

\* The lines of env_vars in the task definitions loaded, and the lists of
\* at most MaxLines of them.
EnvLines ==
    {<<"K", "=", "v">>,
     <<"k", "=", "v">>,
     <<"K", " ", "=", " ", "a", "=", "b">>,
     <<"K", "v">>,
     <<" ", "K", " ", "=", " ", " ", "v", " ">>,
     <<"=", "v">>}
EnvInputs == UNION {[1 .. n -> EnvLines] : n \in 0 .. MaxLines}

\* One field of a task definition is deserialized.
DeserializeHost(field) ==
    /\ de' = <<[field |-> "host", input |-> field,
                output |-> HostField(field)]>>
    /\ UNCHANGED <<timeVars, fileVars, cronVars, stubVars, serviceVars, remote>>

DeserializeCommand(input) ==
    /\ de' = <<[field |-> "run", input |-> input,
                output |-> MyCommandDeserialize(input)]>>
    /\ UNCHANGED <<timeVars, fileVars, cronVars, stubVars, serviceVars, remote>>

DeserializeEnvVars(input) ==
    /\ de' = <<[field |-> "env_vars", input |-> input,
                output |-> de_env_vars(input)]>>
    /\ UNCHANGED <<timeVars, fileVars, cronVars, stubVars, serviceVars, remote>>

\* The last deserialization if it was of the field named, else <<>>.
LastOf(field) == IF de # <<>> /\ de[1].field = field THEN de ELSE <<>>
hostDe == LastOf("host")
cmdDe == LastOf("run")
envDe == LastOf("env_vars")

LoadNext ==
    \/ \E field \in HostFields : DeserializeHost(field)
    \/ \E s \in RunStrings : DeserializeCommand(s)
    \/ \E lines \in EnvInputs : DeserializeEnvVars(lines)

\* ---------------------------------------------------------- the remote run
\* The strings of ss with sep between them.
RECURSIVE Join(_, _)
Join(ss, sep) ==
    IF ss = <<>> THEN <<>>
    ELSE IF Len(ss) = 1 THEN ss[1]
    ELSE ss[1] \o sep \o Join(Tail(ss), sep)

\* K=V for each pair of env_vars, in order.
RECURSIVE Assignments(_)
Assignments(env) ==
    IF env = <<>> THEN <<>>
    ELSE <<env[1][1] \o <<"=">> \o env[1][2]>> \o Assignments(Tail(env))

\* The parts of the shell line of a remote run: the export of the
\* environment, the change of directory, the command.
ExportPart(env) ==
    IF env = <<>> THEN <<>>
    ELSE <<"e", "x", "p", "o", "r", "t", " ">>
             \o Join(Assignments(env), <<" ">>) \o <<" ", "&", "&", " ">>
CdPart(working_dir) ==
    IF working_dir = <<>> THEN <<>>
    ELSE <<"c", "d", " ">> \o working_dir \o <<" ", "&", "&", " ">>
CommandPart(command) ==
    Join(<<command.program>> \o command.args, <<" ">>)

\* The line run_remote hands to the remote shell for a command.
RemoteShellLine(cmd) ==
    ExportPart(cmd.env_vars) \o CdPart(cmd.working_dir)
        \o CommandPart(cmd.inner)

\* The commands run remotely: env_vars as deserialized, working_dir (empty
\* is PathBuf::default()), and run with the MyCommand it deserializes to.
FooBar == <<<<"F", "O", "O">>, <<"b", "a", "r">>>>
RemoteEnvVars ==
    {<<>>, <<FooBar>>, <<FooBar, <<<<"A">>, <<"b">>>>>>,
     <<<<<<"A">>, <<"b">>>>, FooBar>>}
SrvApp == <<"/", "s", "r", "v", "/", "a", "p", "p">>
RemoteWorkingDirs == {<<>>, SrvApp, <<"a", "p", "p">>}
StartSh ==
    <<".", "/", "s", "t", "a", "r", "t", ".", "s", "h">>
RemoteCommands ==
    [env_vars : RemoteEnvVars, working_dir : RemoteWorkingDirs,
     run : RunStrings \cup {StartSh}]

\* A unit starts the remote run of a command: the run string of the task
\* definition was deserialized at load time, the line is built from the
\* result.
SynthesizeLine(c) ==
    /\ LET cmd == [env_vars |-> c.env_vars, working_dir |-> c.working_dir,
                   run |-> c.run, inner |-> MyCommandDeserialize(c.run)]
       IN  remote' = <<[cmd |-> cmd, line |-> RemoteShellLine(cmd)]>>
    /\ UNCHANGED <<timeVars, fileVars, cronVars, stubVars, serviceVars, de>>

RemoteNext == \E c \in RemoteCommands : SynthesizeLine(c)

\* ---------------------------------------------------------------- services
\* enum ServiceStatus.
Healthy == "Healthy"
Unhealthy == "Unhealthy"
Offline == "Offline"
ServiceStatus == {Healthy, Unhealthy, Offline}

\* Result<ServiceStatus, ServiceError>: Ok(status), or Err of a ServiceError
\* with the values it carries.
ServiceOk(status) == [tag |-> "Ok", val |-> status, args |-> <<>>]
ServiceErr(error, args) == [tag |-> "Err", val |-> error, args |-> args]
NotConnected == ServiceErr("NotConnected", <<>>)
DockerError == ServiceErr("Docker", <<>>)
MissingInfo(what) == ServiceErr("MissingInfo", <<what>>)
Conflicting(a, b) == ServiceErr("Conflicting", <<a, b>>)

\* ServiceStatus::from_health and ServiceStatus::from_status.
from_health(health) ==
    CASE health \in {"STARTING", "HEALTHY"} -> <<Healthy>>
      [] health = "UNHEALTHY" -> <<Unhealthy>>
      [] health \in {"NONE", "EMPTY"} -> <<>>

from_status(status) ==
    CASE status \in {"CREATED", "RUNNING"} -> <<Healthy>>
      [] status \in {"RESTARTING", "REMOVING", "DEAD"} -> <<Unhealthy>>
      [] status \in {"PAUSED", "EXITED"} -> <<Offline>>
      [] status = "EMPTY" -> <<>>

\* bollard's HealthStatusEnum and ContainerStateStatusEnum, the Health and
\* the ContainerState of a container, and what inspect_container answers:
\* an error, or a response whose state is None or Some(state).
HealthStatusEnum == {"EMPTY", "NONE", "STARTING", "HEALTHY", "UNHEALTHY"}
ContainerStateStatusEnum ==
    {"EMPTY", "CREATED", "RUNNING", "PAUSED", "RESTARTING", "REMOVING",
     "EXITED", "DEAD"}
Option(S) == {<<>>} \cup {<<x>> : x \in S}
Healths == [status : Option(HealthStatusEnum)]
ContainerStates ==
    [status : Option(ContainerStateStatusEnum), health : Option(Healths)]
Replies ==
    {[tag |-> "Err", state |-> <<>>]}
        \cup {[tag |-> "Ok", state |-> st] : st \in Option(ContainerStates)}

\* The health and the status docker_status derives from the state; each
\* and_then passes None (<<>>) on and applies its function to Some(x).
HealthOf(state) ==
    IF state.health = <<>> THEN <<>>
    ELSE IF state.health[1].status = <<>> THEN <<>>
    ELSE from_health(state.health[1].status[1])
StatusOf(state) ==
    IF state.status = <<>> THEN <<>> ELSE from_status(state.status[1])

\* A faulty variant of docker_status: a reported health always overrides
\* the lifecycle status.
docker_status_HealthWins(reply) ==
    IF reply.tag = "Err" THEN DockerError
    ELSE IF reply.state = <<>> THEN MissingInfo("container state")
    ELSE LET health == HealthOf(reply.state[1])
             status == StatusOf(reply.state[1])
         IN  IF health # <<>> THEN ServiceOk(health[1])
             ELSE IF status # <<>> THEN ServiceOk(status[1])
             ELSE MissingInfo("health or status")

\* docker_status(conn, name), given what inspect_container answers for the
\* container.
docker_status(reply) ==
    IF reply.tag = "Err" THEN DockerError
    ELSE IF reply.state = <<>> THEN MissingInfo("container state")
    ELSE LET health == HealthOf(reply.state[1])
             status == StatusOf(reply.state[1])
         IN  CASE status = <<Healthy>> /\ health = <<Healthy>> ->
                      ServiceOk(Healthy)
               [] status = <<Healthy>> /\ health = <<>> ->
                      ServiceOk(Healthy)
               [] status = <<Unhealthy>> /\ health = <<Healthy>> ->
                      ServiceOk(Healthy)
               [] status = <<Unhealthy>>
                      /\ health \in {<<Unhealthy>>, <<>>} ->
                      ServiceOk(Unhealthy)
               [] status = <<Offline>>
                      /\ health \in {<<Unhealthy>>, <<>>} ->
                      ServiceOk(Offline)
               [] status = <<>> /\ health # <<>> -> ServiceOk(health[1])
               [] status = <<>> /\ health = <<>> ->
                      MissingInfo("health or status")
               [] OTHER -> Conflicting(status[1], health[1])

\* DockerContainer::status: conn is <<>> until connect has succeeded.
DockerContainer_status(conn, reply) ==
    IF conn = <<>> THEN NotConnected ELSE docker_status(reply)

\* The order of ServiceStatus that DockerCompose::status compares by: the
\* lowest value is Offline, then Unhealthy, then Healthy.
Rank(status) ==
    CASE status = Offline -> 0
      [] status = Unhealthy -> 1
      [] status = Healthy -> 2

\* A faulty variant of ComposeLoop: an Offline service does not end the
\* loop, the lowest status seen is returned after all services were asked.
RECURSIVE ComposeLoop_NoEarlyOffline(_, _, _)
ComposeLoop_NoEarlyOffline(replies, k, current) ==
    IF k > Len(replies)
    THEN [out |-> ServiceOk(current), asked |-> Len(replies)]
    ELSE LET this == docker_status(replies[k])
         IN  IF this.tag = "Ok" /\ Rank(current) > Rank(this.val)
             THEN ComposeLoop_NoEarlyOffline(replies, k + 1, this.val)
             ELSE IF this.tag = "Err" THEN [out |-> this, asked |-> k]
             ELSE ComposeLoop_NoEarlyOffline(replies, k + 1, current)

\* The loop of DockerCompose::status from the k-th service on, replies[k]
\* being what inspect_container answers for the k-th name: the result, and
\* the number of services asked.
RECURSIVE ComposeLoop(_, _, _)
ComposeLoop(replies, k, current) ==
    IF k > Len(replies)
    THEN [out |-> ServiceOk(current), asked |-> Len(replies)]
    ELSE LET this == docker_status(replies[k])
         IN  IF this = ServiceOk(Offline)
             THEN [out |-> ServiceOk(Offline), asked |-> k]
             ELSE IF this.tag = "Ok" /\ Rank(current) > Rank(this.val)
             THEN ComposeLoop(replies, k + 1, this.val)
             ELSE IF this.tag = "Err" THEN [out |-> this, asked |-> k]
             ELSE ComposeLoop(replies, k + 1, current)

\* DockerCompose::status: inner is <<>> until initialise has succeeded,
\* then <<replies>>, one reply per name of inner.names.
DockerCompose_status(inner_) ==
    IF inner_ = <<>> THEN [out |-> NotConnected, asked |-> 0]
    ELSE ComposeLoop(inner_[1], 1, Healthy)

\* The replies of the services of a docker-compose file.
ComposeReplies == UNION {[1 .. n -> Replies] : n \in 0 .. MaxServices}

\* DockerContainer::status is called on a container that holds a
\* connection or none; reply is what inspect_container answers.
ContainerStatus ==
    /\ svc = <<>>
    /\ \E conn \in Option({"Docker"}), reply \in Replies :
           svc' = <<[service |-> "DockerContainer",
                     connected |-> conn # <<>>,
                     replies |-> IF conn = <<>> THEN <<>> ELSE <<reply>>,
                     out |-> DockerContainer_status(conn, reply),
                     asked |-> IF conn = <<>> THEN 0 ELSE 1]>>
    /\ UNCHANGED <<timeVars, fileVars, cronVars, stubVars, loadVars>>

\* DockerCompose::status is called on a docker-compose file that was
\* initialised or not.
ComposeStatus ==
    /\ svc = <<>>
    /\ \E inner_ \in Option(ComposeReplies) :
           LET r == DockerCompose_status(inner_)
           IN  svc' = <<[service |-> "DockerCompose",
                         connected |-> inner_ # <<>>,
                         replies |-> IF inner_ = <<>> THEN <<>>
                                     ELSE inner_[1],
                         out |-> r.out,
                         asked |-> r.asked]>>
    /\ UNCHANGED <<timeVars, fileVars, cronVars, stubVars, loadVars>>

ServiceNext ==
    \/ ContainerStatus
    \/ ComposeStatus

\* ---------------------------------------------------------- specifications
\* The file-event task: one activation, its handler, channel and monitor.
Spec == Init /\ [][Next]_vars

\* The file-event task under fair scheduling: a push that has room
\* completes, the monitor task is scheduled when it can receive or when its
\* run has completed, and every unit of a task run terminates.
Fairness ==
    /\ WF_vars(SendComplete)
    /\ WF_vars(MonitorRecvSome)
    /\ WF_vars(MonitorRunDone)
    /\ \A i \in Commands :
           /\ WF_vars(\E p \in ProcOutcomes : UnitFinish(i, p))
           /\ WF_vars(\E r \in RemoteOutcomes : RemoteUnitFinish(i, r))
LiveSpec == Spec /\ Fairness

\* The cron task: one registration with the scheduler and its firings.
CronSpec == Init /\ [][CronNext]_vars

\* The loading of task definitions: the deserializers of the host, run and
\* env_vars fields applied to the values of the definitions.
LoadSpec == Init /\ [][LoadNext]_vars

\* The remote run of a command: the shell line built for it.
RemoteSpec == Init /\ [][RemoteNext]_vars

\* One status query of a service.  The service crate reads nothing of a
\* task, whose host and owners are held fixed.
ServiceInit == Init /\ host = Local /\ extOwners = 1
ServiceSpec == ServiceInit /\ [][ServiceNext]_vars

\* -------------------------------------------------------------- ownership
\* PostEventHandler.parent is an Arc<FileEventTask> (self.clone() in
\* activate): the monitor owns a strong reference for as long as it lives,
\* and hands a further clone to every run.
MonitorOwnsParent == mpc \in {"recv", "run"}
StrongCount ==
    extOwners + (IF MonitorOwnsParent THEN 1 ELSE 0)
              + (IF mpc = "run" THEN 1 ELSE 0)

\* ------------------------------------------------------------------ claims
\* The commands of a run that did not succeed, and the k-th of a set of
\* command indices in ascending order.
FailingCommands(u) == {i \in Commands : u[i].tag # "Ok"}
Nth(S, k) == CHOOSE x \in S : Cardinality({y \in S : y < x}) = k - 1

\* C1: when a run of the file-event task has returned and exactly the
\* commands of a set F did not succeed, the run reports failure with
\* exactly |F| errors, and the k-th error carries the name of the k-th
\* command of F in ascending index order, whatever the order in which the
\* units ended.
C1_ErrorsNameFailingCommandsInOrder ==
    (mpc # "run" /\ result # <<>>) =>
        LET failing == FailingCommands(unit)
            errors == result[1].errors
        IN  /\ Len(errors) = Cardinality(failing)
            /\ (failing # {}) = (result[1].tag = "Err")
            /\ \A k \in 1 .. Len(errors) :
                   errors[k].name = CommandName(Nth(failing, k))

\* C2: no run has returned while a unit it started is still running: the
\* units of the file-event task are all finished whenever its run is not in
\* flight, and no unit of the cron task is ever left running unawaited.
C2_RunAwaitsEveryUnit ==
    /\ mpc # "run" => \A i \in Commands : unit[i] # Running
    /\ \A i \in Commands : detached[i] = 0

\* C3: a run that has returned returned success if and only if every
\* command of the task completed successfully, for the file-event task and
\* for the cron task.
C3_SuccessIffEveryCommandSucceeded ==
    /\ (mpc # "run" /\ result # <<>>) =>
           ((result[1].tag = "Ok") = (\A i \in Commands : unit[i].tag = "Ok"))
    /\ (cpc # "run" /\ cresult # <<>>) =>
           ((cresult[1].tag = "Ok") = (\A i \in Commands : cunit[i].tag = "Ok"))

\* C4: once the last external owner of the activated task has released its
\* reference, the monitor starts no task run any more.
C4_NoRunAfterLastOwnerReleased ==
    [][extOwners = 0 => nRuns' = nRuns]_vars

\* C5: a relevant event is suppressed if and only if it is identical to the
\* most recently forwarded event and arrives less than DEBOUNCE after it;
\* every other relevant event is forwarded (the handler goes on to push it).
C5_SuppressedIffRepeatOfLastForwarded ==
    [][\A n \in Notifications :
          (n.ok /\ relevant(n.event) /\ handle_event(n)) =>
              ((hpc' = "idle") =
                   (lastFwd = <<n.event>> /\ sinceFwd < DEBOUNCE))]_vars

\* The events a sequence holds.
Range(q) == {q[k] : k \in 1 .. Len(q)}

\* C6: a failed task run does not end the monitor: after any number of
\* failed runs the monitor is waiting on the channel or inside a run, unless
\* it has returned because the channel was closed and drained.
C6_FailedRunKeepsMonitorAlive ==
    nFailed > 0 =>
        \/ mpc \in {"recv", "run"}
        \/ mpc = "done" /\ ~txOpen /\ chan = <<>>
\* A run is in flight that was started after an earlier run failed.
C6_Witness == nFailed > 0 /\ mpc = "run"

\* C7: the monitor has started exactly as many task runs as it has received
\* events, and no more than the handler has forwarded.
C7_OneRunPerReceivedEvent ==
    /\ nRuns = nReceived
    /\ nReceived <= nForwarded
\* Two events were forwarded and received, and two runs started.
C7_Witness == nRuns >= 2 /\ nForwarded >= 2

\* C8: the channel never holds more than ChannelCapacity (one) undelivered
\* event; every forwarded event is either received or still in the channel
\* (none is dropped or overwritten); and while the slot is occupied a push
\* cannot complete: the handler keeps its event and waits.
C8_SingleSlotWithBackpressure ==
    /\ Len(chan) <= ChannelCapacity
    /\ nForwarded = nReceived + Len(chan)
    /\ (hpc = "sending") = (pending # <<>>)
    /\ (hpc = "sending" /\ Len(chan) = ChannelCapacity) => ~ENABLED SendComplete
\* The handler is inside blocking_send while the slot is occupied.
C8_Witness == hpc = "sending" /\ Len(chan) = ChannelCapacity

\* C9: every event in the channel, being pushed, or last forwarded is of
\* kind Create, Modify or Remove, and no run was started without a
\* forwarded event: events of other kinds and watcher errors are never
\* pushed and never cause a run.
C9_OnlyRelevantKindsForwarded ==
    /\ \A e \in Range(chan) \cup Range(pending) \cup Range(lastFwd) :
           e.kind \in {"Create", "Modify", "Remove"}
    /\ nRuns <= nForwarded
    /\ (nForwarded = 0 /\ hpc = "idle") => (chan = <<>> /\ mpc # "run")
\* An event of an irrelevant kind was handled, and nothing has been pushed
\* and no run started.
C9_Witness ==
    /\ log = "Ignored event"
    /\ hpc = "idle"
    /\ nForwarded = 0
    /\ nRuns = 0

\* C10: the monitor has returned only if the channel is closed (the Sender
\* is gone and the buffer drained); once it has returned it stays returned
\* and starts no further run; and a receive that finds the channel closed
\* ends the monitor.
C10_MonitorEndsOnlyOnClosedChannel ==
    /\ [](mpc = "done" => (~txOpen /\ chan = <<>>))
    /\ [][mpc = "done" => (mpc' = "done" /\ nRuns' = nRuns)]_vars
    /\ [][(mpc = "recv" /\ mpc' = "done") => (~txOpen /\ chan = <<>>)]_vars
\* The monitor has returned after having run the task.
C10_Witness == mpc = "done" /\ nRuns >= 1

\* C11: activate returned an error if and only if the watcher could not
\* be created, and then no monitor was spawned; when the watcher was
\* created activation succeeded and the monitor was spawned, however many of
\* the paths the watcher refused.
C11_ActivateFailsOnlyWithoutWatcher ==
    /\ activation = "none" => (created = <<>> /\ mpc = "none")
    /\ activation = "err" => (created = <<FALSE>> /\ mpc = "none")
    /\ activation = "ok" => (created = <<TRUE>> /\ mpc # "none")
\* Activation succeeded and the monitor was spawned although the watcher
\* refused every path.
C11_Witness ==
    /\ activation = "ok"
    /\ watched = {}
    /\ watched # watch_paths
    /\ mpc = "recv"

\* C12: in every task run, started by a file event or by the schedule, the
\* unit of each command executes it on the local machine if and only if the
\* task's host is Local, and on the machine at a if the host is Remote(a).
C12_CommandsRunWhereHostSays ==
    \A i \in Commands :
        /\ ranOn[i] # Nowhere =>
               /\ ranOn[i] = LocalMachine <=> host = Local
               /\ \A a \in Addresses : host = Remote(a) => ranOn[i] = a
        /\ cranOn[i] # Nowhere =>
               /\ cranOn[i] = LocalMachine <=> host = Local
               /\ \A a \in Addresses : host = Remote(a) => cranOn[i] = a

\* C13: executions of commands from different firings of one registration
\* never overlap: while a unit of the firing in flight is running, no unit
\* of an earlier firing is still running.
C13_FiringsNeverOverlap ==
    \A i \in Commands, j \in Commands :
        cunit[i] = Running => detached[j] = 0

\* C14: CronTask::activate never runs the task: until the schedule has
\* fired no run is in flight and no unit of a command has been started, and
\* the schedule fires only for a registration that succeeded.
C14_ActivateOnlyRegisters ==
    /\ nFired = 0 =>
           /\ cpc = "idle"
           /\ \A i \in Commands :
                  cunit[i] = NotSpawned /\ cranOn[i] = Nowhere
                      /\ detached[i] = 0
    /\ ~registered => nFired = 0
\* activate has returned Ok(id) and no command has been started.
C14_Witness ==
    /\ registered
    /\ cron_id \in CronIds
    /\ nFired = 0
    /\ cunit = IdleUnits

\* C15: a local command run always ends with a value and never crashes its
\* unit, whatever the operating system did with the process (also when the
\* process ended without an exit code): success if and only if the process
\* exited with code 0, ExitStatus(c) if and only if it exited with a non-zero
\* code c, Io if and only if launching or awaiting it failed; every error
\* carries the command's name.
C15_LocalRunAlwaysReturnsValue ==
    \A i \in Commands :
        cproc[i] # <<>> =>
            LET p == cproc[i][1]
                u == cunit[i]
                exited == p.spawn = "Ok" /\ p.wait = "Ok" /\ p.code # <<>>
            IN  /\ u.tag \in {"Ok", "Err"}
                /\ u.tag = "Ok" <=> (exited /\ p.code[1] = 0)
                /\ (u.tag = "Err" /\ u.type = "ExitStatus")
                       <=> (exited /\ p.code[1] # 0)
                /\ (u.tag = "Err" /\ u.type = "ExitStatus")
                       => u.code = p.code[1]
                /\ (u.tag = "Err" /\ u.type = "Io")
                       <=> (p.spawn = "Err" \/ p.wait = "Err")
                /\ u.tag = "Err" => u.name = CommandName(i)

\* C16: when the unit of a command crashed, the failure list of the run holds,
\* at that command's position among the failing commands, a synthetic
\* failure that carries the name of that command.
C16_CrashedUnitNamedAfterCommand ==
    (mpc # "run" /\ result # <<>> /\ result[1].tag = "Err") =>
        \A k \in 1 .. Len(result[1].errors) :
            LET i == Nth(FailingCommands(unit), k)
            IN  unit[i].tag = "JoinErr" =>
                    /\ result[1].errors[k].type = "Async"
                    /\ result[1].errors[k].name = CommandName(i)

\* The text of an address (its Display form).
AddressText(a) == (CHOOSE e \in IpTexts : e.addr = a).text

\* C17 as stated: deserializing a host never fails; an omitted host and the
\* strings local, localhost, 127.0.0.1 and ::1 give Local, and every other
\* string s gives Remote(s).
C17_EveryOtherStringIsRemote ==
    hostDe # <<>> =>
        LET field == hostDe[1].input
            out == hostDe[1].output
        IN  /\ out.tag = "Ok"
            /\ out.tag = "Ok" =>
                   IF field = <<>> \/ field[1] \in LocalNames
                   THEN out.value[1] = Local
                   ELSE /\ out.value[1].tag = "Remote"
                        /\ AddressText(out.value[1].addr) = field[1]
\* C17 amended: the string is lower-cased first; an omitted host and the
\* strings that are then local, localhost, 127.0.0.1 or ::1 give Local; any
\* other string gives Remote(a) if it is the text of an IP address a, and a
\* deserialization error if it is not.
C17_OtherStringMustBeIpAddress ==
    hostDe # <<>> =>
        LET field == hostDe[1].input
            out == hostDe[1].output
            isLocal == field = <<>>
                           \/ to_ascii_lowercase(field[1]) \in LocalNames
            isIp == field # <<>>
                        /\ \E e \in IpTexts :
                               e.text = to_ascii_lowercase(field[1])
        IN  /\ out = DeOk(Local) <=> isLocal
            /\ out.tag = "Err" <=> (~isLocal /\ ~isIp)
            /\ (out.tag = "Ok" /\ ~isLocal) =>
                   /\ out.value[1].tag = "Remote"
                   /\ AddressText(out.value[1].addr)
                          = to_ascii_lowercase(field[1])
\* A host string that is neither a name of the local machine nor the text
\* of an IP address was deserialized, and the result is an error.
C17_Witness ==
    /\ hostDe # <<>>
    /\ hostDe[1].input # <<>>
    /\ to_ascii_lowercase(hostDe[1].input[1]) \notin LocalNames
    /\ hostDe[1].output.tag = "Err"

\* The first space-delimited token of a string.
FirstToken(s) == Head(split(s, " "))
IsExecutable(s) == s \in ExistingPaths /\ s \in ExecutablePaths

\* C18: for every run string whose first space-delimited token names a file
\* that exists and is executable, the parsed command has that token as its
\* program and the remaining tokens as its arguments.
C18_ExecutableFirstTokenIsProgram ==
    (cmdDe # <<>> /\ IsExecutable(FirstToken(cmdDe[1].input))) =>
        /\ cmdDe[1].output.program = FirstToken(cmdDe[1].input)
        /\ cmdDe[1].output.args = Tail(split(cmdDe[1].input, " "))

\* C19: for every run string that does not name an existing executable, the
\* parsed command is the program sh with exactly the two arguments -c and
\* the original string, unmodified.
C19_OtherStringIsShellInvocation ==
    (cmdDe # <<>> /\ ~IsExecutable(cmdDe[1].input)
         /\ ~IsExecutable(FirstToken(cmdDe[1].input))) =>
        /\ cmdDe[1].output.program = <<"s", "h">>
        /\ cmdDe[1].output.args = <<<<"-", "c">>, cmdDe[1].input>>

\* All characters of s are whitespace.
AllWhitespace(s) == \A j \in 1 .. Len(s) : s[j] \in Whitespace
\* key and val are what is left of line around its first '=' when the
\* whitespace next to that '=' is taken away on both sides.
SplitsAtFirstEquals(line, key, val) ==
    \E i \in 1 .. Len(line) :
        /\ line[i] = "="
        /\ \A j \in 1 .. i - 1 : line[j] # "="
        /\ Len(key) <= i - 1
        /\ key = SubSeq(line, 1, Len(key))
        /\ AllWhitespace(SubSeq(line, Len(key) + 1, i - 1))
        /\ key = <<>> \/ key[Len(key)] \notin Whitespace
        /\ Len(val) <= Len(line) - i
        /\ val = SubSeq(line, Len(line) - Len(val) + 1, Len(line))
        /\ AllWhitespace(SubSeq(line, i + 1, Len(line) - Len(val)))
        /\ val = <<>> \/ val[1] \notin Whitespace

\* C20: parsing the env_vars lines succeeds if and only if every line
\* contains '='; on success there is exactly one (key, value) pair per line,
\* in the order of the lines, duplicates kept, the key being the text before
\* the first '=' and the value the text after it, with the whitespace around
\* the split trimmed; a lowercase letter in a key does not make parsing fail.
C20_EnvVarsOnePairPerLine ==
    envDe # <<>> =>
        LET input == envDe[1].input
            out == envDe[1].output
        IN  /\ out.tag = "Ok"
                   <=> \A k \in 1 .. Len(input) : "=" \in Range(input[k])
            /\ out.tag = "Ok" =>
                   /\ Len(out.value[1]) = Len(input)
                   /\ \A k \in 1 .. Len(input) :
                          SplitsAtFirstEquals(input[k], out.value[1][k][1],
                                              out.value[1][k][2])
\* Two different lines with the same key, one of them with whitespace around
\* the '=', were parsed into two pairs.
C20_Witness ==
    /\ envDe # <<>>
    /\ envDe[1].output.tag = "Ok"
    /\ Len(envDe[1].input) = 2
    /\ envDe[1].input[1] # envDe[1].input[2]
    /\ Len(envDe[1].output.value[1]) = 2
    /\ envDe[1].output.value[1][1][1] = envDe[1].output.value[1][2][1]
    /\ \E k \in 1 .. 2 : " " \in Range(envDe[1].input[k])

\* C21: the shell line of a remote run is the export of all env_vars in
\* order, present if and only if env_vars is non-empty, then the cd to
\* working_dir, present if and only if working_dir is not the default, then
\* the program and its arguments joined by spaces; for working_dir /srv/app,
\* env_vars [(FOO, bar)] and run ./start.sh the line is
\* export FOO=bar && cd /srv/app && ./start.sh.
C21_RemoteShellLine ==
    remote # <<>> =>
        LET cmd == remote[1].cmd
            line == remote[1].line
        IN  /\ \E e \in {<<>>, ExportPart(cmd.env_vars)},
                  c \in {<<>>, CdPart(cmd.working_dir)} :
                   /\ e # <<>> <=> cmd.env_vars # <<>>
                   /\ c # <<>> <=> cmd.working_dir # <<>>
                   /\ line = e \o c \o CommandPart(cmd.inner)
            /\ (cmd.working_dir = SrvApp /\ cmd.env_vars = <<FooBar>>
                    /\ cmd.run = StartSh) =>
                   line = <<"e", "x", "p", "o", "r", "t", " ", "F", "O",
                            "O", "=", "b", "a", "r", " ", "&", "&", " ", "c",
                            "d", " ", "/", "s", "r", "v", "/", "a", "p", "p",
                            " ", "&", "&", " ", ".", "/", "s", "t", "a", "r",
                            "t", ".", "s", "h">>

\* C22: check_dependencies is never invoked: whatever activations, firings,
\* monitor steps and task runs have taken place, no call of it was made.
C22_CheckDependenciesNeverCalled == depChecks = 0
\* The task was activated, an event was received and a task run has
\* returned.
C22_Witness ==
    /\ activation = "ok"
    /\ nReceived >= 1
    /\ mpc = "recv"
    /\ result # <<>>

\* C23: the debounce state (prev_event, prev_time) is absent until the first
\* event is forwarded, and afterwards it changes only in a step that forwards
\* an event: a suppressed event, an event of an irrelevant kind and a
\* watcher error leave it as it was.  (prev_time has changed when the time
\* elapsed since it has become shorter.)
C23_DebounceStateChangesOnlyOnForward ==
    /\ [](nForwarded = 0 => inner = <<>>)
    /\ [][(inner' # inner \/ elapsed' < elapsed)
              => nForwarded' = nForwarded + 1]_vars

\* C24: under fair scheduling and with every task run terminating, every
\* event pushed onto the channel is eventually received by the monitor and
\* followed by a task run, and a handler blocked on a push is eventually
\* unblocked.
C24_PushedEventsAreRun ==
    /\ \A k \in 1 .. MaxForwarded :
           (nForwarded >= k) ~> (nReceived >= k /\ nRuns >= k)
    /\ (hpc = "sending") ~> (hpc = "idle")
\* The handler was blocked on a push behind an event still in the channel
\* while a task run was in flight, and by now both events have been
\* received and run.
C24_Witness ==
    /\ nForwarded = 2
    /\ nReceived = 2
    /\ nRuns = 2
    /\ hpc = "idle"
    /\ chan = <<>>
    /\ mpc = "recv"

\* C25: the task runs of one activation are serialized: the monitor receives
\* the next event, and starts the next run, only when no run is in flight,
\* that is when it is back at its receive and no unit of the run before is
\* still running.
C25_RunsOfOneActivationSerialized ==
    [][(nRuns' # nRuns \/ nReceived' # nReceived)
           => (mpc = "recv" /\ \A i \in Commands : unit[i] # Running)]_vars
\* A second event waits in the channel while the units of the run for the
\* first are running.
C25_Witness ==
    /\ nRuns = 1
    /\ mpc = "run"
    /\ Len(chan) = 1
    /\ \A i \in Commands : unit[i] = Running

ContainerStateQueried ==
    /\ svc # <<>>
    /\ svc[1].service = "DockerContainer"
    /\ svc[1].connected
    /\ svc[1].replies[1].tag = "Ok"
    /\ svc[1].replies[1].state # <<>>
QueriedStatus == StatusOf(svc[1].replies[1].state[1])
QueriedHealth == HealthOf(svc[1].replies[1].state[1])

\* C27: the status of a container is reconciled from the pair (lifecycle
\* status, health), each Healthy, Unhealthy, Offline or absent: with only
\* one present the result is that one; with both present and equal it is
\* that value; (Unhealthy, Healthy) gives Healthy and (Offline, Unhealthy)
\* gives Offline; the Conflicting error is returned exactly for
\* (Healthy, Unhealthy) and (Offline, Healthy), and a MissingInfo error
\* exactly when both are absent.  Every pair has one result.
C27_StatusReconciliation ==
    ContainerStateQueried =>
        LET status == QueriedStatus
            health == QueriedHealth
            out == svc[1].out
        IN  /\ out.tag \in {"Ok", "Err"}
            /\ out.tag = "Ok" => out.val \in ServiceStatus
            /\ (status # <<>> /\ health = <<>>) =>
                   out = ServiceOk(status[1])
            /\ (status = <<>> /\ health # <<>>) =>
                   out = ServiceOk(health[1])
            /\ (status # <<>> /\ status = health) =>
                   out = ServiceOk(status[1])
            /\ (status = <<Unhealthy>> /\ health = <<Healthy>>) =>
                   out = ServiceOk(Healthy)
            /\ (status = <<Offline>> /\ health = <<Unhealthy>>) =>
                   out = ServiceOk(Offline)
            /\ (out.tag = "Err" /\ out.val = "Conflicting") <=>
                   \/ status = <<Healthy>> /\ health = <<Unhealthy>>
                   \/ status = <<Offline>> /\ health = <<Healthy>>
            /\ (out.tag = "Err" /\ out.val = "Conflicting") =>
                   out = Conflicting(status[1], health[1])
            /\ (out.tag = "Err" /\ out.val = "MissingInfo") <=>
                   (status = <<>> /\ health = <<>>)

\* A paused container whose health check reports unhealthy is Offline.
C27_Witness ==
    /\ ContainerStateQueried
    /\ svc[1].replies[1].state[1].status = <<"PAUSED">>
    /\ svc[1].replies[1].state[1].health = <<[status |-> <<"UNHEALTHY">>]>>
    /\ svc[1].out = ServiceOk(Offline)

\* The query of a docker-compose file, the status of its k-th service, and
\* the services at which the examination ends early.
ComposeQueried == svc # <<>> /\ svc[1].service = "DockerCompose"
StatusOfService(k) == docker_status(svc[1].replies[k])
EndsAt ==
    {k \in 1 .. Len(svc[1].replies) :
         \/ StatusOfService(k).tag = "Err"
         \/ StatusOfService(k) = ServiceOk(Offline)}

====
